---- MODULE Spec2Model ----
(***************************************************************************)
(* The FlowEx matching engine (backend/shared/matching-engine/src/lib.rs): *)
(* one MatchingEngine instance for one trading pair, driven by add_order   *)
(* and cancel_order calls.  Decimal quantities and prices are integers in  *)
(* units of the smallest step; Option<T> is a sequence of length 0 or 1.   *)
(***************************************************************************)
EXTENDS Integers, Sequences, FiniteSets, TLC

\* ---------------------------------------------------------------- bounds
MaxOps == 3

\* ---------------------------------------------------------------- inputs
EngineSymbol == "BTCUSDT"
Symbols == {"BTCUSDT", "ETHUSDT"}
OrderSide == {"Buy", "Sell"}
OrderType == {"Market", "Limit", "StopLoss", "TakeProfit"}
Prices == {0, 1, 2}
Quantities == {0, 1, 2}

None == <<>>
Some(x) == <<x>>
is_none(o) == o = <<>>
unwrap(o) == o[1]
unwrap_or(o, d) == IF o = <<>> THEN d ELSE o[1]

OptPrices == {None} \cup {Some(p) : p \in Prices}

\* max in place of min.
Max(a, b) == IF a >= b THEN a ELSE b

Min(a, b) == IF a <= b THEN a ELSE b

VARIABLES
    buy_orders,        \* BTreeMap<Decimal, VecDeque<Order>>
    sell_orders,       \* BTreeMap<Decimal, VecDeque<Order>>
    last_trade_price,  \* Option<Decimal>
    total_volume,      \* Decimal
    last_call,         \* the latest call: its argument, the engine before it, its result
    returned_volume,   \* sum of the quantities of the trades handed back in Ok results
    n_calls            \* number of add_order / cancel_order calls made so far

vars == <<buy_orders, sell_orders, last_trade_price, total_volume,
          last_call, returned_volume, n_calls>>

\* The engine as the methods see it (&mut self).
Self == [symbol |-> EngineSymbol,
         buy_orders |-> buy_orders,
         sell_orders |-> sell_orders,
         last_trade_price |-> last_trade_price,
         total_volume |-> total_volume]

\* ---------------------------------------------------------------- BTreeMap
EmptyMap == [p \in {} |-> <<>>]

RECURSIVE keys_desc(_)
\* keys() as a map ordered the other way round would give them.
keys_desc(S) ==
    IF S = {} THEN <<>>
    ELSE LET m == CHOOSE x \in S : \A y \in S : x >= y
         IN <<m>> \o keys_desc(S \ {m})

RECURSIVE keys(_)
\* BTreeMap::keys(): the keys in ascending order.
keys(S) ==
    IF S = {} THEN <<>>
    ELSE LET m == CHOOSE x \in S : \A y \in S : x <= y
         IN <<m>> \o keys(S \ {m})

map_remove(m, k) == [p \in (DOMAIN m) \ {k} |-> m[p]]

map_set(m, k, v) == [p \in (DOMAIN m) \cup {k} |-> IF p = k THEN v ELSE m[p]]

\* push_front in place of push_back.
map_push_front(m, k, v) ==
    map_set(m, k, IF k \in DOMAIN m THEN <<v>> \o m[k] ELSE <<v>>)

\* entry(k).or_insert_with(VecDeque::new).push_back(v)
map_push_back(m, k, v) ==
    map_set(m, k, IF k \in DOMAIN m THEN Append(m[k], v) ELSE <<v>>)

\* ---------------------------------------------------------------- orders
\* tests::create_test_order: a fresh order as callers build it.
create_test_order(id, trading_pair, side, order_type, price, quantity) ==
    [id |-> id,
     trading_pair |-> trading_pair,
     side |-> side,
     order_type |-> order_type,
     price |-> price,
     quantity |-> quantity,
     filled_quantity |-> 0,
     remaining_quantity |-> quantity,
     status |-> "New"]

Ok(v) == [ok |-> TRUE, err |-> "", value |-> v]
Err(kind) == [ok |-> FALSE, err |-> kind, value |-> <<>>]

\* The validator without the symbol rule.
validate_order_any_symbol(self, order) ==
    IF order.quantity <= 0 THEN Err("Validation")
    ELSE IF order.order_type = "Market" THEN Ok(<<>>)
    ELSE IF is_none(order.price) \/ unwrap(order.price) <= 0
         THEN Err("Validation") ELSE Ok(<<>>)

\* The validator with `< 0` where the code has `<= 0` for a Limit price.
validate_order_zero_price(self, order) ==
    IF order.quantity <= 0 THEN Err("Validation")
    ELSE IF order.trading_pair # self.symbol THEN Err("Validation")
    ELSE IF order.order_type = "Limit"
         THEN IF is_none(order.price) \/ unwrap(order.price) < 0
              THEN Err("Validation") ELSE Ok(<<>>)
    ELSE IF order.order_type = "Market" THEN Ok(<<>>)
    ELSE IF is_none(order.price) \/ unwrap(order.price) <= 0
         THEN Err("Validation") ELSE Ok(<<>>)

validate_order(self, order) ==
    IF order.quantity <= 0 THEN Err("Validation")
    ELSE IF order.trading_pair # self.symbol THEN Err("Validation")
    ELSE IF order.order_type = "Limit"
         THEN IF is_none(order.price) \/ unwrap(order.price) <= 0
              THEN Err("Validation") ELSE Ok(<<>>)
    ELSE IF order.order_type = "Market" THEN Ok(<<>>)
    ELSE IF is_none(order.price) \/ unwrap(order.price) <= 0
         THEN Err("Validation") ELSE Ok(<<>>)

\* The trade priced at the taker's own price.
create_trade_swapped(self, taker_order, maker_order, price, quantity) ==
    [self |-> [self EXCEPT !.last_trade_price = Some(unwrap_or(taker_order.price, price)),
                           !.total_volume = @ + quantity],
     trade |-> [symbol |-> self.symbol,
                price |-> unwrap_or(taker_order.price, price),
                quantity |-> quantity,
                side |-> taker_order.side,
                buyer_order_id |-> IF taker_order.side = "Buy"
                                   THEN taker_order.id ELSE maker_order.id,
                seller_order_id |-> IF taker_order.side = "Buy"
                                    THEN maker_order.id ELSE taker_order.id]]

\* The trade with the maker's side in place of the taker's.
create_trade_maker_side(self, taker_order, maker_order, price, quantity) ==
    [self |-> [self EXCEPT !.last_trade_price = Some(price),
                           !.total_volume = @ + quantity],
     trade |-> [symbol |-> self.symbol,
                price |-> price,
                quantity |-> quantity,
                side |-> maker_order.side,
                buyer_order_id |-> IF taker_order.side = "Buy"
                                   THEN taker_order.id ELSE maker_order.id,
                seller_order_id |-> IF taker_order.side = "Buy"
                                    THEN maker_order.id ELSE taker_order.id]]

\* The trade made without touching last_trade_price.
create_trade_keep_last_price(self, taker_order, maker_order, price, quantity) ==
    [self |-> [self EXCEPT !.total_volume = @ + quantity],
     trade |-> [symbol |-> self.symbol,
                price |-> price,
                quantity |-> quantity,
                side |-> taker_order.side,
                buyer_order_id |-> IF taker_order.side = "Buy"
                                   THEN taker_order.id ELSE maker_order.id,
                seller_order_id |-> IF taker_order.side = "Buy"
                                    THEN maker_order.id ELSE taker_order.id]]

\* create_trade: the trade record, and the engine scalars it updates.
\* buyer_order_id and seller_order_id are the locals the code computes (they are
\* not fields of the Trade handed back); they tell which resting order was the maker.
create_trade(self, taker_order, maker_order, price, quantity) ==
    [self |-> [self EXCEPT !.last_trade_price = Some(price),
                           !.total_volume = @ + quantity],
     trade |-> [symbol |-> self.symbol,
                price |-> price,
                quantity |-> quantity,
                side |-> taker_order.side,
                buyer_order_id |-> IF taker_order.side = "Buy"
                                   THEN taker_order.id ELSE maker_order.id,
                seller_order_id |-> IF taker_order.side = "Buy"
                                    THEN maker_order.id ELSE taker_order.id]]

\* ---------------------------------------------------------------- matching
RECURSIVE match_at_price_push_back(_, _, _)
\* The loop with a partly filled maker put back at the back of its queue.
match_at_price_push_back(st, order, price) ==
    IF st.orders_at_price = <<>> THEN st
    ELSE
      LET counter_order == Head(st.orders_at_price)
          rest == Tail(st.orders_at_price)
      IN IF st.remaining_quantity <= 0
         THEN st
         ELSE
           LET trade_quantity == Min(st.remaining_quantity, counter_order.remaining_quantity)
               trade_price == unwrap_or(counter_order.price, price)
               ct == create_trade(st.self, order, counter_order, trade_price, trade_quantity)
               updated == [counter_order EXCEPT
                             !.remaining_quantity = @ - trade_quantity,
                             !.filled_quantity = @ + trade_quantity]
               requeued == IF updated.remaining_quantity <= 0
                           THEN rest
                           ELSE rest \o <<[updated EXCEPT !.status = "PartiallyFilled"]>>
           IN match_at_price_push_back(
                [self |-> ct.self,
                 orders_at_price |-> requeued,
                 remaining_quantity |-> st.remaining_quantity - trade_quantity,
                 trades |-> Append(st.trades, ct.trade)],
                order, price)

RECURSIVE match_at_price_keep_status(_, _, _)
\* The loop without `counter_order.status = PartiallyFilled`.
match_at_price_keep_status(st, order, price) ==
    IF st.orders_at_price = <<>> THEN st
    ELSE
      LET counter_order == Head(st.orders_at_price)
          rest == Tail(st.orders_at_price)
      IN IF st.remaining_quantity <= 0
         THEN st
         ELSE
           LET trade_quantity == Min(st.remaining_quantity, counter_order.remaining_quantity)
               trade_price == unwrap_or(counter_order.price, price)
               ct == create_trade(st.self, order, counter_order, trade_price, trade_quantity)
               updated == [counter_order EXCEPT
                             !.remaining_quantity = @ - trade_quantity,
                             !.filled_quantity = @ + trade_quantity]
               requeued == IF updated.remaining_quantity <= 0
                           THEN rest
                           ELSE <<updated>> \o rest
           IN match_at_price_keep_status(
                [self |-> ct.self,
                 orders_at_price |-> requeued,
                 remaining_quantity |-> st.remaining_quantity - trade_quantity,
                 trades |-> Append(st.trades, ct.trade)],
                order, price)

RECURSIVE match_at_price(_, _, _)
\* The inner `while let Some(counter_order) = orders_at_price.pop_front()` loop
\* of both sweeps.  st = [self, orders_at_price, remaining_quantity, trades].
match_at_price(st, order, price) ==
    IF st.orders_at_price = <<>> THEN st
    ELSE
      LET counter_order == Head(st.orders_at_price)
          rest == Tail(st.orders_at_price)
      IN IF st.remaining_quantity <= 0
         THEN st    \* push_front(counter_order); break
         ELSE
           LET trade_quantity == Min(st.remaining_quantity, counter_order.remaining_quantity)
               trade_price == unwrap_or(counter_order.price, price)
               ct == create_trade(st.self, order, counter_order, trade_price, trade_quantity)
               updated == [counter_order EXCEPT
                             !.remaining_quantity = @ - trade_quantity,
                             !.filled_quantity = @ + trade_quantity]
               requeued == IF updated.remaining_quantity <= 0
                           THEN rest
                           ELSE <<[updated EXCEPT !.status = "PartiallyFilled"]>> \o rest
           IN match_at_price(
                [self |-> ct.self,
                 orders_at_price |-> requeued,
                 remaining_quantity |-> st.remaining_quantity - trade_quantity,
                 trades |-> Append(st.trades, ct.trade)],
                order, price)

\* One price level of a sweep: match at it, then drop the level if it is empty.
\* lv = [self, opposite_orders, remaining_quantity, trades].
sweep_level(lv, order, price) ==
    IF price \notin DOMAIN lv.opposite_orders THEN lv
    ELSE
      LET r == match_at_price([self |-> lv.self,
                               orders_at_price |-> lv.opposite_orders[price],
                               remaining_quantity |-> lv.remaining_quantity,
                               trades |-> lv.trades], order, price)
      IN [self |-> r.self,
          opposite_orders |-> IF r.orders_at_price = <<>>
                              THEN map_remove(lv.opposite_orders, price)
                              ELSE map_set(lv.opposite_orders, price, r.orders_at_price),
          remaining_quantity |-> r.remaining_quantity,
          trades |-> r.trades]

\* The two comparisons the wrong way round.
can_match_swapped(order, price, order_price) ==
    IF order.side = "Buy" THEN price >= order_price ELSE price <= order_price

\* The comparisons strict: a level at the order's own price does not match.
can_match_strict(order, price, order_price) ==
    IF order.side = "Buy" THEN price < order_price ELSE price > order_price

\* Limit sweep: whether a level's price satisfies the incoming order's limit.
can_match(order, price, order_price) ==
    IF order.side = "Buy" THEN price <= order_price ELSE price >= order_price

\* The market sweep stopping after the best level.
market_price_levels_first(lv, order, price_levels) ==
    IF price_levels = <<>> THEN lv
    ELSE IF lv.remaining_quantity <= 0 THEN lv
    ELSE sweep_level(lv, order, Head(price_levels))

RECURSIVE market_price_levels(_, _, _)
\* execute_market_order: `for price in price_levels`.
market_price_levels(lv, order, price_levels) ==
    IF price_levels = <<>> THEN lv
    ELSE IF lv.remaining_quantity <= 0 THEN lv
    ELSE market_price_levels(sweep_level(lv, order, Head(price_levels)),
                             order, Tail(price_levels))

RECURSIVE limit_price_levels_break(_, _, _, _)
\* The sweep with `break` where the code has `continue`.
limit_price_levels_break(lv, order, order_price, price_levels) ==
    IF price_levels = <<>> THEN lv
    ELSE IF lv.remaining_quantity <= 0 THEN lv
    ELSE IF ~can_match(order, Head(price_levels), order_price) THEN lv
    ELSE limit_price_levels_break(sweep_level(lv, order, Head(price_levels)),
                                  order, order_price, Tail(price_levels))

RECURSIVE limit_price_levels(_, _, _, _)
\* execute_limit_order: `for price in price_levels`.
limit_price_levels(lv, order, order_price, price_levels) ==
    IF price_levels = <<>> THEN lv
    ELSE IF lv.remaining_quantity <= 0 THEN lv
    ELSE IF ~can_match(order, Head(price_levels), order_price)
         THEN limit_price_levels(lv, order, order_price, Tail(price_levels))
    ELSE limit_price_levels(sweep_level(lv, order, Head(price_levels)),
                            order, order_price, Tail(price_levels))

\* The sweep pointed at the order's own side.
opposite_of_own(self, order) ==
    IF order.side = "Buy" THEN self.buy_orders ELSE self.sell_orders

opposite_of(self, order) ==
    IF order.side = "Buy" THEN self.sell_orders ELSE self.buy_orders

\* The incoming order's filled_quantity left as the caller set it.
finish_execution_stale(lv, order) ==
    [self |-> IF order.side = "Buy"
              THEN [lv.self EXCEPT !.sell_orders = lv.opposite_orders]
              ELSE [lv.self EXCEPT !.buy_orders = lv.opposite_orders],
     order |-> [order EXCEPT !.remaining_quantity = lv.remaining_quantity,
                             !.status = IF lv.remaining_quantity <= 0 THEN "Filled"
                                        ELSE order.status],
     result |-> Ok(lv.trades)]

\* The end of both sweeps: write the opposite side back, update the incoming order.
finish_execution(lv, order) ==
    LET filled == order.quantity - lv.remaining_quantity
        status == IF lv.remaining_quantity <= 0 THEN "Filled"
                  ELSE IF filled > 0 THEN "PartiallyFilled"
                  ELSE order.status
    IN [self |-> IF order.side = "Buy"
                 THEN [lv.self EXCEPT !.sell_orders = lv.opposite_orders]
                 ELSE [lv.self EXCEPT !.buy_orders = lv.opposite_orders],
        order |-> [order EXCEPT !.filled_quantity = filled,
                                !.remaining_quantity = lv.remaining_quantity,
                                !.status = status],
        result |-> Ok(lv.trades)]

execute_market_order(self, order) ==
    LET opposite_orders == opposite_of(self, order)
        lv == market_price_levels(
                [self |-> self, opposite_orders |-> opposite_orders,
                 remaining_quantity |-> order.quantity, trades |-> <<>>],
                order, keys(DOMAIN opposite_orders))
    IN finish_execution(lv, order)

execute_limit_order(self, order) ==
    IF is_none(order.price)
    THEN [self |-> self, order |-> order, result |-> Err("Trading")]
    ELSE
      LET opposite_orders == opposite_of(self, order)
          lv == limit_price_levels(
                  [self |-> self, opposite_orders |-> opposite_orders,
                   remaining_quantity |-> order.quantity, trades |-> <<>>],
                  order, unwrap(order.price), keys(DOMAIN opposite_orders))
      IN finish_execution(lv, order)

\* The order queued on the other side's map.
add_to_order_book_swapped(self, order) ==
    IF is_none(order.price)
    THEN [self |-> self, result |-> Err("Trading")]
    ELSE [self |-> IF order.side = "Buy"
                   THEN [self EXCEPT !.sell_orders = map_push_back(@, unwrap(order.price), order)]
                   ELSE [self EXCEPT !.buy_orders = map_push_back(@, unwrap(order.price), order)],
          result |-> Ok(<<>>)]

add_to_order_book(self, order) ==
    IF is_none(order.price)
    THEN [self |-> self, result |-> Err("Trading")]
    ELSE [self |-> IF order.side = "Buy"
                   THEN [self EXCEPT !.buy_orders = map_push_back(@, unwrap(order.price), order)]
                   ELSE [self EXCEPT !.sell_orders = map_push_back(@, unwrap(order.price), order)],
          result |-> Ok(<<>>)]

\* StopLoss and TakeProfit orders sent to the market sweep.
add_order_stop_as_market(self, order) ==
    IF ~validate_order(self, order).ok
    THEN [self |-> self, order |-> order, trades |-> <<>>,
          result |-> validate_order(self, order)]
    ELSE
      LET ex == IF order.order_type = "Limit"
                THEN execute_limit_order(self, order)
                ELSE execute_market_order(self, order)
      IN IF ~ex.result.ok
         THEN [self |-> ex.self, order |-> ex.order, trades |-> <<>>, result |-> ex.result]
         ELSE IF ex.order.remaining_quantity > 0 /\ ex.order.status # "Cancelled"
         THEN LET ins == add_to_order_book(ex.self, ex.order)
              IN [self |-> ins.self, order |-> ex.order, trades |-> ex.result.value,
                  result |-> IF ins.result.ok THEN ex.result ELSE ins.result]
         ELSE [self |-> ex.self, order |-> ex.order, trades |-> ex.result.value,
               result |-> ex.result]

\* add_order: [self, order (as execution left it), trades (created by matching), result].
add_order(self, order) ==
    IF ~validate_order(self, order).ok
    THEN [self |-> self, order |-> order, trades |-> <<>>,
          result |-> validate_order(self, order)]
    ELSE
      LET ex == IF order.order_type = "Market"
                THEN execute_market_order(self, order)
                ELSE execute_limit_order(self, order)
      IN IF ~ex.result.ok
         THEN [self |-> ex.self, order |-> ex.order, trades |-> <<>>, result |-> ex.result]
         ELSE IF ex.order.remaining_quantity > 0 /\ ex.order.status # "Cancelled"
         THEN LET ins == add_to_order_book(ex.self, ex.order)
              IN [self |-> ins.self, order |-> ex.order, trades |-> ex.result.value,
                  result |-> IF ins.result.ok THEN ex.result ELSE ins.result]
         ELSE [self |-> ex.self, order |-> ex.order, trades |-> ex.result.value,
               result |-> ex.result]

\* ---------------------------------------------------------------- cancel
\* position() with the test negated: the first order with another id.
position_other(orders, order_id) ==
    IF \E i \in 1..Len(orders) : orders[i].id # order_id
    THEN Some(CHOOSE i \in 1..Len(orders) :
                /\ orders[i].id # order_id
                /\ \A j \in 1..(i - 1) : orders[j].id = order_id)
    ELSE None

position(orders, order_id) ==
    IF \E i \in 1..Len(orders) : orders[i].id = order_id
    THEN Some(CHOOSE i \in 1..Len(orders) :
                /\ orders[i].id = order_id
                /\ \A j \in 1..(i - 1) : orders[j].id # order_id)
    ELSE None

\* truncate(pos) in place of remove(pos): the orders behind go too.
remove_from(orders, pos) == SubSeq(orders, 1, pos - 1)

remove_at(orders, pos) == SubSeq(orders, 1, pos - 1) \o SubSeq(orders, pos + 1, Len(orders))

RECURSIVE cancel_in(_, _, _)
\* `for (_, orders) in side.iter_mut()`: the side with the order removed from the
\* first level that holds it, or None when no level holds it.
cancel_in(side, price_levels, order_id) ==
    IF price_levels = <<>> THEN None
    ELSE LET pos == position(side[Head(price_levels)], order_id)
         IN IF is_none(pos)
            THEN cancel_in(side, Tail(price_levels), order_id)
            ELSE Some(map_set(side, Head(price_levels),
                              remove_at(side[Head(price_levels)], unwrap(pos))))

cancel_order(self, order_id) ==
    LET in_buy == cancel_in(self.buy_orders, keys(DOMAIN self.buy_orders), order_id)
        in_sell == cancel_in(self.sell_orders, keys(DOMAIN self.sell_orders), order_id)
    IN IF ~is_none(in_buy)
       THEN [self |-> [self EXCEPT !.buy_orders = unwrap(in_buy)], result |-> Ok(TRUE)]
       ELSE IF ~is_none(in_sell)
       THEN [self |-> [self EXCEPT !.sell_orders = unwrap(in_sell)], result |-> Ok(TRUE)]
       ELSE [self |-> self, result |-> Ok(FALSE)]

\* ---------------------------------------------------------------- introspection
\* Iterator::rev
rev(s) == [i \in 1..Len(s) |-> s[Len(s) + 1 - i]]

\* Iterator::take
take(s, n) == IF n <= Len(s) THEN SubSeq(s, 1, n) ELSE s

RECURSIVE total_quantity(_)
\* orders.iter().map(|o| o.remaining_quantity).sum()
total_quantity(orders) ==
    IF orders = <<>> THEN 0
    ELSE Head(orders).remaining_quantity + total_quantity(Tail(orders))

RECURSIVE snapshot_levels_unfiltered(_, _)
\* The loop pushing every level it visits.
snapshot_levels_unfiltered(side, price_levels) ==
    IF price_levels = <<>> THEN <<>>
    ELSE <<[price |-> Head(price_levels),
            quantity |-> total_quantity(side[Head(price_levels)])]>>
         \o snapshot_levels_unfiltered(side, Tail(price_levels))

RECURSIVE snapshot_levels(_, _)
\* The body of both loops of get_order_book: one OrderBookLevel for every visited
\* level whose total quantity is > 0.
snapshot_levels(side, price_levels) ==
    IF price_levels = <<>> THEN <<>>
    ELSE LET price == Head(price_levels)
             quantity == total_quantity(side[price])
         IN (IF quantity > 0
             THEN <<[price |-> price, quantity |-> quantity]>>
             ELSE <<>>)
            \o snapshot_levels(side, Tail(price_levels))

get_order_book(self, depth) ==
    [symbol |-> self.symbol,
     bids |-> snapshot_levels(self.buy_orders,
                              take(rev(keys(DOMAIN self.buy_orders)), depth)),
     asks |-> snapshot_levels(self.sell_orders,
                              take(keys(DOMAIN self.sell_orders), depth))]

get_best_bid(self) ==
    LET k == rev(keys(DOMAIN self.buy_orders))
    IN IF k = <<>> THEN None ELSE Some(Head(k))

get_best_ask(self) ==
    LET k == keys(DOMAIN self.sell_orders)
    IN IF k = <<>> THEN None ELSE Some(Head(k))

get_spread(self) ==
    IF is_none(get_best_bid(self)) \/ is_none(get_best_ask(self))
    THEN None
    ELSE Some(unwrap(get_best_ask(self)) - unwrap(get_best_bid(self)))

\* ---------------------------------------------------------------- the system
\* MatchingEngine::new
Init ==
    /\ buy_orders = EmptyMap
    /\ sell_orders = EmptyMap
    /\ last_trade_price = None
    /\ total_volume = 0
    /\ last_call = [op |-> "new", arg |-> None, before |-> None, ok |-> TRUE,
                    err |-> "", value |-> <<>>, trades |-> <<>>, after |-> None]
    /\ returned_volume = 0
    /\ n_calls = 0

RECURSIVE sum_quantity(_)
sum_quantity(trades) ==
    IF trades = <<>> THEN 0 ELSE Head(trades).quantity + sum_quantity(Tail(trades))

Install(self) ==
    /\ buy_orders' = self.buy_orders
    /\ sell_orders' = self.sell_orders
    /\ last_trade_price' = self.last_trade_price
    /\ total_volume' = self.total_volume

\* One add_order call and what the caller sees of it.
Submit(order) ==
    LET r == add_order(Self, order)
    IN /\ Install(r.self)
       /\ last_call' = [op |-> "add_order", arg |-> order, before |-> Some(Self),
                        ok |-> r.result.ok,
                        err |-> r.result.err, value |-> r.result.value,
                        trades |-> r.trades, after |-> Some(r.order)]
       /\ returned_volume' = returned_volume + sum_quantity(r.result.value)

\* A caller builds an order with a fresh id and hands it to add_order.
AddOrder ==
    /\ n_calls < MaxOps
    /\ \E trading_pair \in Symbols, side \in OrderSide, order_type \in OrderType,
          price \in OptPrices, quantity \in Quantities :
         Submit(create_test_order(n_calls + 1, trading_pair, side,
                                  order_type, price, quantity))
    /\ n_calls' = n_calls + 1

\* Order.status is a public field: the statuses a caller may hand in that
\* add_order tells apart (it tests the status against Cancelled only).
SubmittedStatus == {"New", "Cancelled"}

\* A caller hands add_order an order for the engine's symbol whose status it set itself.
AddOrderWithStatus ==
    /\ n_calls < MaxOps
    /\ \E side \in OrderSide, order_type \in OrderType, price \in OptPrices,
          quantity \in Quantities, status \in SubmittedStatus :
         Submit([create_test_order(n_calls + 1, EngineSymbol, side,
                                   order_type, price, quantity)
                   EXCEPT !.status = status])
    /\ n_calls' = n_calls + 1

\* A caller cancels by id: an id handed out so far, or one never submitted.
CancelOrder ==
    /\ n_calls < MaxOps
    /\ \E order_id \in 1..MaxOps :
         LET r == cancel_order(Self, order_id)
         IN /\ Install(r.self)
            /\ last_call' = [op |-> "cancel_order", arg |-> order_id, before |-> Some(Self),
                             ok |-> r.result.ok,
                             err |-> r.result.err, value |-> r.result.value,
                             trades |-> <<>>, after |-> None]
    /\ UNCHANGED returned_volume
    /\ n_calls' = n_calls + 1

\* The depths a caller asks a snapshot for.
Depths == 0..3

\* A call of a `&self` method: the engine stays, the caller gets the value.
Read(op, arg, value) ==
    /\ n_calls < MaxOps
    /\ UNCHANGED <<buy_orders, sell_orders, last_trade_price, total_volume,
                   returned_volume>>
    /\ last_call' = [op |-> op, arg |-> arg, before |-> Some(Self), ok |-> TRUE,
                     err |-> "", value |-> value, trades |-> <<>>, after |-> None]
    /\ n_calls' = n_calls + 1

GetOrderBook == \E depth \in Depths : Read("get_order_book", depth, get_order_book(Self, depth))

GetBestBid == Read("get_best_bid", None, get_best_bid(Self))

GetBestAsk == Read("get_best_ask", None, get_best_ask(Self))

GetSpread == Read("get_spread", None, get_spread(Self))

Next ==
    \/ AddOrder
    \/ CancelOrder
    \/ GetOrderBook
    \/ GetBestBid
    \/ GetBestAsk
    \/ GetSpread

Spec == Init /\ [][Next]_vars

NextWithStatus == AddOrderWithStatus \/ CancelOrder

\* The engine driven by callers that set the status of the orders they submit.
SpecWithStatus == Init /\ [][NextWithStatus]_vars

\* ---------------------------------------------------------------- properties
IsAdd == last_call.op = "add_order"
Incoming == last_call.arg
Before == unwrap(last_call.before)
After == unwrap(last_call.after)
Trades == last_call.trades
IsPriced(order) == order.order_type \in {"Limit", "StopLoss", "TakeProfit"}

\* The orders resting on one side, and at one level of it.
resting(side) == UNION {{side[p][i] : i \in 1..Len(side[p])} : p \in DOMAIN side}
level(side, p) == IF p \in DOMAIN side THEN side[p] ELSE <<>>

\* Section 4.3: which opposite levels an incoming order may trade at.
Eligible(order, p) ==
    \/ order.order_type = "Market"
    \/ order.side = "Buy" /\ p <= unwrap(order.price)
    \/ order.side = "Sell" /\ p >= unwrap(order.price)

\* C1: a Sell trades against the highest eligible bid first: the trade prices of
\* one call never rise, and no eligible bid level priced above a trade of the
\* call is left holding orders.
C1_SellHighestBidFirst ==
    (IsAdd /\ Incoming.side = "Sell") =>
        /\ \A i \in 1..(Len(Trades) - 1) : Trades[i].price >= Trades[i + 1].price
        /\ \A i \in 1..Len(Trades) : \A p \in DOMAIN buy_orders :
             (p > Trades[i].price /\ Eligible(Incoming, p)) => buy_orders[p] = <<>>

\* C2: a Buy trades against the lowest eligible ask first: the trade prices of one
\* call never fall, and no eligible ask level priced below a trade of the call is
\* left holding orders.
C2_BuyLowestAskFirst ==
    (IsAdd /\ Incoming.side = "Buy") =>
        /\ \A i \in 1..(Len(Trades) - 1) : Trades[i].price <= Trades[i + 1].price
        /\ \A i \in 1..Len(Trades) : \A p \in DOMAIN sell_orders :
             (p < Trades[i].price /\ Eligible(Incoming, p)) => sell_orders[p] = <<>>

\* A Buy swept two ask levels, the cheaper of which was submitted later.
C2_Witness ==
    /\ IsAdd /\ Incoming.side = "Buy" /\ Len(Trades) = 2
    /\ Trades[1].price < Trades[2].price
    /\ \E a \in resting(Before.sell_orders), b \in resting(Before.sell_orders) :
         a.price = Some(Trades[1].price) /\ b.price = Some(Trades[2].price) /\ a.id > b.id

\* Whether the call just made filled (part of) the order b that was resting before it.
GotFill(b, side) ==
    /\ IsAdd
    /\ \/ ~\E o \in resting(side) : o.id = b.id
       \/ \E o \in resting(side) : o.id = b.id /\ o.filled_quantity > b.filled_quantity

FifoOn(before_side, side) ==
    \A p \in DOMAIN before_side : \A i, j \in 1..Len(before_side[p]) :
        LET a == before_side[p][i]
            b == before_side[p][j]
        IN (a.id < b.id /\ GotFill(b, side)) =>
              ~\E o \in resting(side) : o.id = a.id /\ o.remaining_quantity > 0

\* C3: time priority within a level: of two orders resting at one price, the one
\* submitted later gets no fill while the earlier one still rests with quantity.
C3_Fifo ==
    last_call.op # "new" =>
        /\ FifoOn(Before.buy_orders, buy_orders)
        /\ FifoOn(Before.sell_orders, sell_orders)

\* Two orders rested at one price; the call filled the earlier and left the later untouched.
C3_Witness ==
    /\ IsAdd /\ Trades # <<>>
    /\ \E side \in {<<Before.buy_orders, buy_orders>>, <<Before.sell_orders, sell_orders>>} :
         \E p \in DOMAIN side[1] :
            /\ Len(side[1][p]) = 2
            /\ side[1][p][1].id < side[1][p][2].id
            /\ level(side[2], p) = <<side[1][p][2]>>

\* C4: add_order returns Ok with the trades it generated for every order that
\* passes validation; the only error it returns is a validation error.
C4_ValidOrderReturnsOk ==
    IsAdd =>
        /\ validate_order(Before, Incoming).ok => (last_call.ok /\ last_call.value = Trades)
        /\ ~last_call.ok => last_call.err = "Validation"

\* C5: an add_order call that returns an error leaves the engine as it was.
C5_ErrorLeavesStateUntouched ==
    (IsAdd /\ ~last_call.ok) => Self = Before

\* C6: no Market order rests in the book.
C6_NoRestingMarketOrder ==
    \A o \in resting(buy_orders) \cup resting(sell_orders) : o.order_type # "Market"

\* C7: total_volume is the sum of the quantities of the trades handed back by
\* add_order so far.
C7_VolumeIsReturnedTrades == total_volume = returned_volume

QuantityOk(o) ==
    /\ o.filled_quantity + o.remaining_quantity = o.quantity
    /\ o.remaining_quantity >= 0

\* C8: filled + remaining = quantity and remaining >= 0 for every resting order,
\* and for the incoming order as execution leaves it.
C8_QuantityInvariant ==
    /\ \A o \in resting(buy_orders) \cup resting(sell_orders) : QuantityOk(o)
    /\ IsAdd => QuantityOk(After)

\* A partly filled maker rests, and the incoming order has been filled.
C8_Witness ==
    /\ IsAdd /\ last_call.ok /\ After.filled_quantity > 0
    /\ \E o \in resting(buy_orders) \cup resting(sell_orders) :
         o.filled_quantity > 0 /\ o.remaining_quantity > 0

\* C9: the trades of a priced Buy are at or below its limit, those of a priced
\* Sell at or above it.
C9_LimitPriceRespected ==
    (IsAdd /\ IsPriced(Incoming)) =>
        \A i \in 1..Len(Trades) :
            IF Incoming.side = "Buy"
            THEN Trades[i].price <= unwrap(Incoming.price)
            ELSE Trades[i].price >= unwrap(Incoming.price)

\* A priced order traded at a price strictly better than its limit.
C9_Witness ==
    /\ IsAdd /\ IsPriced(Incoming) /\ last_call.ok
    /\ \E i \in 1..Len(Trades) : Trades[i].price # unwrap(Incoming.price)

with_id(side, id) == {o \in resting(side) : o.id = id}
OppositeBefore == IF Incoming.side = "Buy" THEN Before.sell_orders ELSE Before.buy_orders
OppositeNow == IF Incoming.side = "Buy" THEN sell_orders ELSE buy_orders
OwnBefore == IF Incoming.side = "Buy" THEN Before.buy_orders ELSE Before.sell_orders
OwnNow == IF Incoming.side = "Buy" THEN buy_orders ELSE sell_orders
\* The maker of a trade of the latest call: the order that was not the incoming one.
maker_id(t) == IF Incoming.side = "Buy" THEN t.seller_order_id ELSE t.buyer_order_id

\* C11: when add_order of a Market order has matched, the order is filled or the
\* opposite side holds no resting order; no price limit applies to it.
C11_MarketSweepComplete ==
    (IsAdd /\ Incoming.order_type = "Market" /\ last_call.err # "Validation") =>
        \/ After.remaining_quantity = 0
        \/ resting(OppositeNow) = {}

\* A Market Buy with a price traded at two levels, one of them above that price.
C11_Witness ==
    /\ IsAdd /\ Incoming.order_type = "Market" /\ Incoming.side = "Buy"
    /\ Len(Trades) = 2 /\ Trades[1].price # Trades[2].price
    /\ ~is_none(Incoming.price) /\ Trades[2].price > unwrap(Incoming.price)

\* C12: every trade is at the maker's price: the price of the resting order it
\* was matched against, which is the key of the level that order was queued at.
C12_TradeAtMakerPrice ==
    IsAdd =>
        \A i \in 1..Len(Trades) :
            /\ with_id(OppositeBefore, maker_id(Trades[i])) # {}
            /\ \A m \in with_id(OppositeBefore, maker_id(Trades[i])) :
                 /\ m.price = Some(Trades[i].price)
                 /\ m \in {OppositeBefore[Trades[i].price][k] :
                             k \in 1..Len(level(OppositeBefore, Trades[i].price))}

\* A priced order traded with a maker whose price differs from its own limit.
C12_Witness ==
    /\ IsAdd /\ IsPriced(Incoming) /\ Trades # <<>>
    /\ \E m \in with_id(OppositeBefore, maker_id(Trades[1])) :
         m.price = Some(Trades[1].price) /\ m.price # Incoming.price

\* C13: every trade carries the side of the incoming order of the call, which is
\* not the side of the resting order it was matched against.
C13_TradeSideIsTaker ==
    IsAdd =>
        \A i \in 1..Len(Trades) :
            /\ Trades[i].side = Incoming.side
            /\ \A m \in with_id(OppositeBefore, maker_id(Trades[i])) :
                 m.side # Trades[i].side

\* A Sell traded with a resting Buy order.
C13_Witness ==
    /\ IsAdd /\ Incoming.side = "Sell" /\ Trades # <<>>
    /\ \E m \in with_id(Before.buy_orders, Trades[1].buyer_order_id) : m.side = "Buy"

RECURSIVE sum_remaining(_)
\* The remaining quantity of a set of orders.
sum_remaining(S) ==
    IF S = {} THEN 0
    ELSE LET o == CHOOSE x \in S : TRUE
         IN o.remaining_quantity + sum_remaining(S \ {o})

\* What the incoming order still wanted when its i-th trade was made.
IncomingRemainingAt(i) == Incoming.quantity - sum_quantity(SubSeq(Trades, 1, i - 1))

\* C14: each trade is for min(incoming remaining, maker remaining) > 0, the maker's
\* remaining drops and its filled rises by that amount (a maker left with nothing
\* is gone), and the trade quantities of the call add up to the incoming order's
\* filled quantity and to the drop of remaining quantity on the opposite side.
C14_TradeQuantityIsMin ==
    IsAdd =>
        /\ \A i \in 1..Len(Trades) :
             /\ Trades[i].quantity > 0
             /\ \A j \in 1..Len(Trades) : maker_id(Trades[i]) = maker_id(Trades[j]) => i = j
             /\ \E m \in with_id(OppositeBefore, maker_id(Trades[i])) :
                  /\ Trades[i].quantity =
                        IF IncomingRemainingAt(i) <= m.remaining_quantity
                        THEN IncomingRemainingAt(i) ELSE m.remaining_quantity
                  /\ IF with_id(OppositeNow, m.id) = {}
                     THEN m.remaining_quantity = Trades[i].quantity
                     ELSE \A n \in with_id(OppositeNow, m.id) :
                            /\ n.remaining_quantity = m.remaining_quantity - Trades[i].quantity
                            /\ n.filled_quantity = m.filled_quantity + Trades[i].quantity
        /\ last_call.err # "Validation" =>
             /\ sum_quantity(Trades) = After.filled_quantity
             /\ sum_quantity(Trades) =
                   sum_remaining(resting(OppositeBefore)) - sum_remaining(resting(OppositeNow))

\* Two trades in one call, the second for less than its maker held.
C14_Witness ==
    /\ IsAdd /\ Len(Trades) = 2
    /\ \E m \in with_id(OppositeBefore, maker_id(Trades[2])) :
         Trades[2].quantity < m.remaining_quantity

\* C15: a maker left with quantity by a match is still at the front of its level,
\* ahead of the orders that were queued behind it, in their order.
C15_PartialFillKeepsPlace ==
    IsAdd =>
        \A i \in 1..Len(Trades) :
            with_id(OppositeNow, maker_id(Trades[i])) # {} =>
                LET was == level(OppositeBefore, Trades[i].price)
                    now == level(OppositeNow, Trades[i].price)
                IN /\ now # <<>>
                   /\ Head(now).id = maker_id(Trades[i])
                   /\ Head(now).remaining_quantity > 0
                   /\ \E k \in 1..Len(was) :
                        /\ was[k].id = maker_id(Trades[i])
                        /\ Tail(now) = SubSeq(was, k + 1, Len(was))

\* A maker was partly filled and still heads a level with another order behind it.
C15_Witness ==
    /\ IsAdd /\ Trades # <<>>
    /\ LET now == level(OppositeNow, Trades[Len(Trades)].price)
       IN /\ Len(now) = 2
          /\ now[1].id = maker_id(Trades[Len(Trades)])
          /\ now[1].filled_quantity > 0

\* C16: after a successful add_order of a priced order, the order rests exactly
\* when it is left with quantity, and then on its own side only, at its own price,
\* at the back of that level, with quantity minus the trades of the call remaining.
C16_PricedOrderRestsIffUnfilled ==
    (IsAdd /\ IsPriced(Incoming) /\ last_call.ok) =>
        /\ with_id(OppositeNow, Incoming.id) = {}
        /\ (with_id(OwnNow, Incoming.id) # {}) <=> (After.remaining_quantity > 0)
        /\ After.remaining_quantity = Incoming.quantity - sum_quantity(last_call.value)
        /\ After.remaining_quantity > 0 =>
             LET now == level(OwnNow, unwrap(Incoming.price))
                 was == level(OwnBefore, unwrap(Incoming.price))
             IN /\ now = Append(was, After)
                /\ After.price = Incoming.price /\ After.side = Incoming.side
                /\ \A p \in DOMAIN OwnNow : p # unwrap(Incoming.price) =>
                      \A k \in 1..Len(OwnNow[p]) : OwnNow[p][k].id # Incoming.id
        /\ (last_call.value = <<>> /\ After.remaining_quantity > 0) =>
              After.remaining_quantity = Incoming.quantity

\* A priced order was partly matched and its remainder rests.
C16_Witness ==
    /\ IsAdd /\ IsPriced(Incoming) /\ last_call.ok
    /\ last_call.value # <<>> /\ After.remaining_quantity > 0
    /\ with_id(OwnNow, Incoming.id) # {}

\* Section 4.1: the orders the validator is to accept.
ValidOrder(order) ==
    /\ order.quantity > 0
    /\ order.trading_pair = EngineSymbol
    /\ \/ order.order_type = "Market"
       \/ /\ order.order_type \in {"Limit", "StopLoss", "TakeProfit"}
          /\ order.price # None
          /\ unwrap(order.price) > 0

\* C17: add_order of an order that breaks a validation rule returns an error,
\* makes no trade and leaves both sides, last_trade_price and total_volume as
\* they were.
C17_InvalidOrderLeavesEngine ==
    (IsAdd /\ ~ValidOrder(Incoming)) =>
        /\ ~last_call.ok
        /\ Trades = <<>> /\ last_call.value = <<>>
        /\ Self = Before

\* An order for another symbol was turned away from a book that holds orders.
C17_Witness ==
    /\ IsAdd /\ ~last_call.ok
    /\ Incoming.trading_pair # EngineSymbol /\ Incoming.quantity > 0
    /\ resting(buy_orders) # {} /\ resting(sell_orders) # {}

\* C18: the validator accepts an order exactly when quantity > 0, the symbol is
\* the engine's, and the type is Market or the price is present and > 0; a
\* rejection is a validation error and the validator changes nothing.
C18_ValidatorAcceptsIff ==
    IsAdd =>
        /\ validate_order(Before, Incoming).ok <=> ValidOrder(Incoming)
        /\ (last_call.err = "Validation") <=> ~ValidOrder(Incoming)

\* A Market order with price 0 was accepted, a Limit order with price 0 is not.
C18_Witness ==
    /\ IsAdd /\ last_call.err # "Validation"
    /\ Incoming.order_type = "Market" /\ Incoming.price = Some(0)

IsCancel == last_call.op = "cancel_order"
RestingBefore == resting(Before.buy_orders) \cup resting(Before.sell_orders)
RestingNow == resting(buy_orders) \cup resting(sell_orders)

\* A queue without the orders of the given id.
RECURSIVE without_id(_, _)
without_id(orders, id) ==
    IF orders = <<>> THEN <<>>
    ELSE IF Head(orders).id = id THEN without_id(Tail(orders), id)
    ELSE <<Head(orders)>> \o without_id(Tail(orders), id)

\* C19: cancel_order of a resting order returns true; the order rests no more, no
\* trade is made, the scalars stay, and every other resting order keeps its
\* content and its place among the others.
C19_CancelRemovesOnlyThatOrder ==
    (IsCancel /\ \E o \in RestingBefore : o.id = last_call.arg) =>
        /\ last_call.ok /\ last_call.value = TRUE
        /\ ~\E o \in RestingNow : o.id = last_call.arg
        /\ Trades = <<>>
        /\ last_trade_price = Before.last_trade_price
        /\ total_volume = Before.total_volume
        /\ \A p \in DOMAIN Before.buy_orders :
             level(buy_orders, p) = without_id(Before.buy_orders[p], last_call.arg)
        /\ \A p \in DOMAIN Before.sell_orders :
             level(sell_orders, p) = without_id(Before.sell_orders[p], last_call.arg)
        /\ RestingNow \subseteq RestingBefore

\* The first of two orders at one level was cancelled and the second stays.
C19_Witness ==
    /\ IsCancel /\ last_call.value = TRUE
    /\ \E p \in DOMAIN Before.buy_orders :
         /\ Len(Before.buy_orders[p]) = 2
         /\ Before.buy_orders[p][1].id = last_call.arg
         /\ level(buy_orders, p) = <<Before.buy_orders[p][2]>>

\* C20: cancel_order of an id that is not resting returns false, not an error,
\* and changes nothing.
C20_CancelUnknownIsNoOp ==
    (IsCancel /\ ~\E o \in RestingBefore : o.id = last_call.arg) =>
        /\ last_call.ok /\ last_call.value = FALSE
        /\ Self = Before

\* The id of an order that was filled earlier is cancelled while another order rests.
C20_Witness ==
    /\ IsCancel /\ last_call.value = FALSE
    /\ last_call.arg < n_calls
    /\ total_volume > 0
    /\ RestingNow # {}

\* C16 as amended: after a successful add_order of a priced order, the order
\* rests exactly when it is left with quantity and its status is not Cancelled,
\* and then on its own side only, at its own price, at the back of that level,
\* with quantity minus the trades of the call remaining.
C16_RestsIffUnfilledAndNotCancelled ==
    (IsAdd /\ IsPriced(Incoming) /\ last_call.ok) =>
        /\ with_id(OppositeNow, Incoming.id) = {}
        /\ (with_id(OwnNow, Incoming.id) # {}) <=>
              (After.remaining_quantity > 0 /\ After.status # "Cancelled")
        /\ After.remaining_quantity = Incoming.quantity - sum_quantity(last_call.value)
        /\ (After.remaining_quantity > 0 /\ After.status # "Cancelled") =>
             LET now == level(OwnNow, unwrap(Incoming.price))
                 was == level(OwnBefore, unwrap(Incoming.price))
             IN /\ now = Append(was, After)
                /\ After.price = Incoming.price /\ After.side = Incoming.side
                /\ \A p \in DOMAIN OwnNow : p # unwrap(Incoming.price) =>
                      \A k \in 1..Len(OwnNow[p]) : OwnNow[p][k].id # Incoming.id
        /\ (last_call.value = <<>> /\ After.remaining_quantity > 0) =>
              After.remaining_quantity = Incoming.quantity

\* An order handed in as Cancelled was partly matched and its remainder rests
\* behind nothing else than the orders that were there.
C16_AmendedWitness ==
    /\ IsAdd /\ IsPriced(Incoming) /\ last_call.ok
    /\ Incoming.status = "Cancelled"
    /\ last_call.value # <<>> /\ After.remaining_quantity > 0
    /\ with_id(OwnNow, Incoming.id) # {}

\* C21: no price key of the bid map or of the ask map has an empty queue.
C21_NoEmptyPriceLevel ==
    /\ \A p \in DOMAIN buy_orders : buy_orders[p] # <<>>
    /\ \A p \in DOMAIN sell_orders : sell_orders[p] # <<>>

\* The prices at which orders rest on one side, and the best n of them.
populated(side) == {p \in DOMAIN side : side[p] # <<>>}
highest(S) == CHOOSE x \in S : \A y \in S : x >= y
lowest(S) == CHOOSE x \in S : \A y \in S : x <= y
prices_of(levels) == [i \in 1..Len(levels) |-> levels[i].price]

\* C22: get_best_bid is the highest price at which a Buy rests, get_best_ask the
\* lowest price at which a Sell rests, None when none rests; get_spread is their
\* difference when both exist and None otherwise.
C22_BestPricesReflectResting ==
    LET bids == populated(buy_orders)
        asks == populated(sell_orders)
    IN /\ get_best_bid(Self) = IF bids = {} THEN None ELSE Some(highest(bids))
       /\ get_best_ask(Self) = IF asks = {} THEN None ELSE Some(lowest(asks))
       /\ get_spread(Self) = IF bids = {} \/ asks = {} THEN None
                             ELSE Some(lowest(asks) - highest(bids))

\* C23: get_order_book(N) gives on each side min(N, k) levels, k being the number
\* of levels holding resting quantity, and they are the best-priced of them.
C23_SnapshotDepth ==
    \A depth \in Depths :
        LET book == get_order_book(Self, depth)
        IN /\ prices_of(book.bids) = take(rev(keys(populated(buy_orders))), depth)
           /\ prices_of(book.asks) = take(keys(populated(sell_orders)), depth)

\* What a snapshot's levels must look like against the side they were taken from.
SnapshotLevelsOk(levels, side, descending) ==
    /\ \A i \in 1..(Len(levels) - 1) :
         IF descending THEN levels[i].price > levels[i + 1].price
                       ELSE levels[i].price < levels[i + 1].price
    /\ \A i \in 1..Len(levels) :
         /\ levels[i].quantity > 0
         /\ levels[i].quantity =
               sum_remaining({o \in resting(side) : o.price = Some(levels[i].price)})
         /\ levels[i].quantity =
               sum_remaining({level(side, levels[i].price)[k] :
                                k \in 1..Len(level(side, levels[i].price))})

\* C24: in every snapshot the bids are in strictly descending and the asks in
\* strictly ascending price order, each level's quantity is the sum of the
\* remaining quantities of the orders resting at that price on that side, and no
\* level has quantity zero.
C24_SnapshotContent ==
    \A depth \in Depths :
        LET book == get_order_book(Self, depth)
        IN /\ SnapshotLevelsOk(book.bids, buy_orders, TRUE)
           /\ SnapshotLevelsOk(book.asks, sell_orders, FALSE)

\* A snapshot of a book with a populated bid level and an ask level emptied by a
\* cancellation: the snapshot shows the bid and no ask.
C24_Witness ==
    /\ \E p \in DOMAIN sell_orders : sell_orders[p] = <<>>
    /\ get_order_book(Self, 3).asks = <<>>
    /\ Len(get_order_book(Self, 3).bids) = 1
    /\ get_order_book(Self, 3).bids[1].quantity = 2

\* A side with the type of the order of the given id set to ty.
retyped(side, id, ty) ==
    [p \in DOMAIN side |->
        [k \in 1..Len(side[p]) |->
            IF side[p][k].id = id THEN [side[p][k] EXCEPT !.order_type = ty]
            ELSE side[p][k]]]

\* C25: add_order of a StopLoss or TakeProfit order gives the validation outcome,
\* the trades and the book that add_order of the same order with type Limit gives
\* from the same engine state (the resting order keeps the type it came with).
C25_StopOrdersLikeLimit ==
    (IsAdd /\ Incoming.order_type \in {"StopLoss", "TakeProfit"}) =>
        LET r == add_order(Before, [Incoming EXCEPT !.order_type = "Limit"])
        IN /\ validate_order(Before, Incoming) =
                 validate_order(Before, [Incoming EXCEPT !.order_type = "Limit"])
           /\ r.result.ok = last_call.ok
           /\ r.result.err = last_call.err
           /\ r.result.value = last_call.value
           /\ r.trades = Trades
           /\ retyped(r.self.buy_orders, Incoming.id, Incoming.order_type) = buy_orders
           /\ retyped(r.self.sell_orders, Incoming.id, Incoming.order_type) = sell_orders
           /\ r.self.last_trade_price = last_trade_price
           /\ r.self.total_volume = total_volume
           /\ [r.order EXCEPT !.order_type = Incoming.order_type] = After

\* A TakeProfit order traded at a price better than its own and rests with the remainder.
C25_Witness ==
    /\ IsAdd /\ Incoming.order_type = "TakeProfit" /\ last_call.ok
    /\ Trades # <<>> /\ Trades[1].price # unwrap(Incoming.price)
    /\ with_id(OwnNow, Incoming.id) # {}

\* C26: with orders submitted as New with nothing filled, a resting order is New
\* exactly when nothing of it is filled and PartiallyFilled exactly when some but
\* not all of it is; no Filled or Cancelled order and no order with nothing
\* remaining rests.
C26_FillStatusTracksFill ==
    \A o \in RestingNow :
        /\ (o.status = "New") <=> (o.filled_quantity = 0)
        /\ (o.status = "PartiallyFilled") <=>
              (0 < o.filled_quantity /\ o.filled_quantity < o.quantity)
        /\ o.status \notin {"Filled", "Cancelled"}
        /\ o.remaining_quantity > 0

\* A maker was partly filled by the call just made and rests as PartiallyFilled
\* next to an untouched New order.
C26_Witness ==
    /\ IsAdd /\ Trades # <<>>
    /\ \E o \in with_id(OppositeNow, maker_id(Trades[1])) : o.status = "PartiallyFilled"
    /\ \E o \in RestingNow : o.status = "New"

PlacedOk(side, s) ==
    \A p \in DOMAIN side : \A k \in 1..Len(side[p]) :
        /\ side[p][k].side = s
        /\ side[p][k].price # None
        /\ unwrap(side[p][k].price) > 0
        /\ unwrap(side[p][k].price) = p
        /\ side[p][k].trading_pair = EngineSymbol

\* C28: every order in the bid map is a Buy and every order in the ask map a Sell;
\* each has a price, > 0 and equal to the key of its level, and the engine's symbol.
C28_BookPlacement == PlacedOk(buy_orders, "Buy") /\ PlacedOk(sell_orders, "Sell")

\* C29: an add_order call makes at most one trade per order that rested on the
\* opposite side when it started, each with a different one of those orders and
\* none with an order of the incoming order's own side, and leaves the own side
\* as it was but for the incoming remainder appended to its level.
C29_MatchingBoundedSelfContained ==
    IsAdd =>
        /\ Len(Trades) <= Cardinality(resting(OppositeBefore))
        /\ \A i \in 1..Len(Trades) :
             /\ with_id(OppositeBefore, maker_id(Trades[i])) # {}
             /\ with_id(OwnBefore, maker_id(Trades[i])) = {}
             /\ maker_id(Trades[i]) # Incoming.id
             /\ \A j \in 1..Len(Trades) :
                  maker_id(Trades[i]) = maker_id(Trades[j]) => i = j
        /\ \/ OwnNow = OwnBefore
           \/ /\ After.price # None
              /\ After.remaining_quantity > 0
              /\ OwnNow = map_push_back(OwnBefore, unwrap(After.price), After)

\* An order traded with the one opposite order and rests with its remainder
\* behind an order of its own side.
C29_Witness ==
    /\ IsAdd /\ Len(Trades) = 1
    /\ Cardinality(resting(OppositeBefore)) = 1
    /\ After.price # None
    /\ Len(level(OwnBefore, unwrap(After.price))) = 1
    /\ Len(level(OwnNow, unwrap(After.price))) = 2

IsRead == last_call.op \in {"get_order_book", "get_best_bid", "get_best_ask", "get_spread"}

====
